---- MODULE Spec2Model ----
(***************************************************************************)
(* Model of src/app.py: the Streamlit dashboard that loads a JSON array of *)
(* real-estate listings, filters it with the sidebar widgets and puts one  *)
(* folium marker on the map for every filtered listing with coordinates.   *)
(*                                                                         *)
(* Python values are modelled as follows.                                  *)
(*   - a str is a sequence of one-character strings, so that lower(),      *)
(*     strip(), "in" and f-string concatenation are computed;              *)
(*   - a dict is a record whose DOMAIN is the set of keys present; a key   *)
(*     that is absent from the JSON object is absent from the record;      *)
(*   - the result of dict.get(key) is <<>> for None and <<v>> for v;       *)
(*   - an array element that is not a JSON object is the record NonDict.   *)
(***************************************************************************)
EXTENDS Integers, Sequences, FiniteSets

VARIABLES
    file,          \* contents of DATA_PATH: the JSON array
    widgets,       \* values the user left in the sidebar widgets
    data,          \* main: data
    min_price,     \* main: min_price
    max_price,     \* main: max_price
    show_changed,  \* main: show_changed
    room_filter,   \* main: room_filter
    text_search,   \* main: text_search
    filtered,      \* main: filtered
    i,             \* position of "for l in data" (1-based index of the next element)
    markers,       \* markers added to marker_cluster, in order
    shown,         \* main: shown
    j,             \* position of "for listing in filtered"
    report,        \* the two numbers of the st.markdown line, <<>> before it is written
    pc             \* position in main

vars == <<file, widgets, data, min_price, max_price, show_changed, room_filter,
          text_search, filtered, i, markers, shown, j, report, pc>>

-----------------------------------------------------------------------------
(* Bounds of the model *)

MaxListings == 2
MaxPrice == 2

-----------------------------------------------------------------------------
(* Python string operations *)

UpperChars == <<"A","B","C","D","E","F","G","H","I","J","K","L","M","N","O","P","Q","R","S","T","U","V","W","X","Y","Z","Ó">>
LowerChars == <<"a","b","c","d","e","f","g","h","i","j","k","l","m","n","o","p","q","r","s","t","u","v","w","x","y","z","ó">>

LowerChar(c) ==
    IF \E n \in 1..Len(UpperChars) : UpperChars[n] = c
    THEN LowerChars[CHOOSE n \in 1..Len(UpperChars) : UpperChars[n] = c]
    ELSE c

\* str.lower()
Lower(s) == [k \in 1..Len(s) |-> LowerChar(s[k])]

RECURSIVE LStrip(_)
LStrip(s) == IF s # <<>> /\ Head(s) = " " THEN LStrip(Tail(s)) ELSE s

RECURSIVE RStrip(_)
RStrip(s) ==
    IF s # <<>> /\ s[Len(s)] = " " THEN RStrip(SubSeq(s, 1, Len(s) - 1)) ELSE s

\* str.strip()
Strip(s) == RStrip(LStrip(s))

\* "t in s" for two strings
In(t, s) == \E k \in 0..(Len(s) - Len(t)) : SubSeq(s, k + 1, k + Len(t)) = t

-----------------------------------------------------------------------------
(* Python dict operations *)

None == <<>>

\* the element of a JSON array that is not an object (a number, a string, ...)
NonDict == [nondict |-> TRUE]

IsDict(l) == "nondict" \notin DOMAIN l

\* l.get(key)
Get(l, key) == IF key \in DOMAIN l THEN <<l[key]>> ELSE None

\* l.get(key, default) for a str default
GetStr(l, key, default) == IF key \in DOMAIN l THEN l[key] ELSE default

\* truth value of a number-or-None
TruthyNum(v) == v # None /\ v[1] # 0

\* truth value of a bool-or-None
TruthyBool(v) == v # None /\ v[1] = TRUE

-----------------------------------------------------------------------------
(* The body of the filtering loop, one operator per filter *)

\* a price filter that lets a listing without price through
PriceOk_NoneAllowed(price, mn, mx) ==
    price = None \/ (price[1] # 0 /\ mn <= price[1] /\ price[1] <= mx)

\* a price filter that joins the two bounds with "or"
PriceOk_EitherBound(price, mn, mx) ==
    TruthyNum(price) /\ (mn <= price[1] \/ price[1] <= mx)

\* a price filter with the "not" of the test forgotten
PriceOk_Inverted(price, mn, mx) ==
    ~(TruthyNum(price) /\ mn <= price[1] /\ price[1] <= mx)

\* price and min_price <= price <= max_price
PriceOk(price, mn, mx) ==
    TruthyNum(price) /\ mn <= price[1] /\ price[1] <= mx

\* not (show_changed and not l.get("price_changed"))
ChangeOk(sc, changed) == ~(sc /\ ~TruthyBool(changed))

\* a room filter that rejects every listing when no keyword is in the value
RoomOk_UnknownRejects(rf, category) ==
    \/ Lower(rf) = <<"a","l","l">>
    \/ /\ In(<<"1">>, rf) \/ In(<<"2">>, rf) \/ In(<<"g","a","r","z">>, Lower(rf))
       /\ ~(In(<<"1">>, rf) /\ ~In(<<"1">>, category))
       /\ ~(In(<<"2">>, rf) /\ ~In(<<"2">>, category))
       /\ ~(In(<<"g","a","r","z">>, Lower(rf)) /\ ~In(<<"g","a","r","z">>, category))

\* the three tests under room_filter.lower() != "all"
RoomOk(rf, category) ==
    \/ Lower(rf) = <<"a","l","l">>
    \/ /\ ~(In(<<"1">>, rf) /\ ~In(<<"1">>, category))
       /\ ~(In(<<"2">>, rf) /\ ~In(<<"2">>, category))
       /\ ~(In(<<"g","a","r","z">>, Lower(rf)) /\ ~In(<<"g","a","r","z">>, category))

\* f"{title} {category} {county}"
Combined(title, category, county) ==
    title \o <<" ">> \o category \o <<" ">> \o county

\* not (text_search and text_search not in combined)
TextOk(ts, title, category, county) ==
    ts = <<>> \/ In(ts, Combined(title, category, county))

\* TRUE when the loop body reaches filtered.append(l), FALSE when it continues
Keep(l, mn, mx, sc, rf, ts) ==
    LET title    == Lower(GetStr(l, "title", <<>>))
        category == Lower(GetStr(l, "category", <<>>))
        county   == Lower(GetStr(l, "county", <<>>))
        price    == Get(l, "latest_price")
    IN  /\ PriceOk(price, mn, mx)
        /\ ChangeOk(sc, Get(l, "price_changed"))
        /\ RoomOk(rf, category)
        /\ TextOk(ts, title, category, county)

\* an append that puts the new element first
ListAppend_Front(list, x) == <<x>> \o list

\* list.append(x), also the order in which add_to fills the cluster
ListAppend(list, x) == Append(list, x)

-----------------------------------------------------------------------------
(* The body of the marker loop *)

\* a coordinate test that skips only when both coordinates are missing
HasCoords_Either(lat, lon) == ~(~TruthyNum(lat) /\ ~TruthyNum(lon))

\* not (not lat or not lon)
HasCoords(lat, lon) == ~(~TruthyNum(lat) \/ ~TruthyNum(lon))

NoTitle == <<"N","o"," ","t","i","t","l","e">>

\* a popup that adds the price history of a listing whose price changed
PopupHtml_WithHistory(listing) ==
    LET base == [title                |-> GetStr(listing, "title", NoTitle),
                 link                 |-> Get(listing, "link"),
                 latest_price         |-> Get(listing, "latest_price"),
                 size_m2              |-> Get(listing, "size_m2"),
                 avg_price            |-> Get(listing, "avg_price"),
                 average_price_per_m2 |-> Get(listing, "average_price_per_m2"),
                 county               |-> Get(listing, "county"),
                 category             |-> Get(listing, "category")]
    IN  IF TruthyBool(Get(listing, "price_changed")) /\ "price_history" \in DOMAIN listing
        THEN [k \in DOMAIN base \cup {"price_history"} |->
                 IF k = "price_history" THEN listing.price_history ELSE base[k]]
        ELSE base

\* popup_html: the values the f-string interpolates, by the name of the field
PopupHtml(listing) ==
    [title                |-> GetStr(listing, "title", NoTitle),
     link                 |-> Get(listing, "link"),
     latest_price         |-> Get(listing, "latest_price"),
     size_m2              |-> Get(listing, "size_m2"),
     avg_price            |-> Get(listing, "avg_price"),
     average_price_per_m2 |-> Get(listing, "average_price_per_m2"),
     county               |-> Get(listing, "county"),
     category             |-> Get(listing, "category")]

\* color="red" if listing.get("price_changed") else "blue"
IconColor(listing) ==
    IF TruthyBool(Get(listing, "price_changed")) THEN "red" ELSE "blue"

\* folium.Marker(location=[lat, lon], popup=..., tooltip=title, icon=...)
Marker(listing) ==
    [location |-> <<Get(listing, "latitude"), Get(listing, "longitude")>>,
     popup    |-> PopupHtml(listing),
     tooltip  |-> GetStr(listing, "title", NoTitle),
     color    |-> IconColor(listing)]

\* a summary line that counts the filtered listings
Summary_Filtered(s, d) == <<Len(filtered), Len(d)>>

\* f"**Properties displayed:** {shown} / {len(data)}"
Summary(s, d) == <<s, Len(d)>>

-----------------------------------------------------------------------------
(* Inputs: the JSON file and the sidebar *)

Without(l, keys) == [k \in DOMAIN l \ keys |-> l[k]]

SeqsUpTo(S, n) == UNION {[1..k -> S] : k \in 0..n}

History == <<[date |-> "2024-01-01", price |-> 2], [date |-> "2024-02-01", price |-> 1]>>

\* a complete listing: every field of the JSON object is present
Base ==
    [title |-> <<"T">>, category |-> <<"1">>, county |-> <<"c">>, link |-> "u",
     latest_price |-> 1, size_m2 |-> 50, avg_price |-> 2, average_price_per_m2 |-> 3,
     latitude |-> 1, longitude |-> 2, price_changed |-> TRUE, price_history |-> History]

\* every price of the range, and no price at all
PriceVariants ==
    {[Base EXCEPT !.latest_price = p] : p \in 0..MaxPrice}
        \cup {Without(Base, {"latest_price"})}

\* other categories, titles and counties, with price_changed false or absent
CategoryVariants ==
    {[Base EXCEPT !.category = <<"2">>, !.price_changed = FALSE],
     [Without(Base, {"price_changed", "price_history"}) EXCEPT
         !.title = <<"U">>, !.county = <<"d">>,
         !.category = <<"G","a","r","z","ó","n","k","a">>]}

\* coordinates that are zero or absent, both or only one of them
CoordVariants ==
    {[Base EXCEPT !.latitude = 0, !.longitude = 0],
     [Base EXCEPT !.latitude = 0],
     Without(Base, {"longitude"})}

Listings == PriceVariants \cup CategoryVariants \cup CoordVariants

\* what json.load can return for the file: an array of objects and non-objects
Files == SeqsUpTo(Listings \cup {NonDict}, MaxListings)

All == <<"A","l","l">>
Garzonky == <<"G","a","r","z","ó","n","k","y">>

\* options=["All", "1", "2", "Garzónky"]
RoomOptions == {All, <<"1">>, <<"2">>, Garzonky}

\* values of room_filter that the selectbox does not offer
RoomOthers == {<<"1","2">>, <<"G","a","r","z","1">>, <<"3">>}

\* what the user can type into the text input
TextInputs == {<<>>, <<" ","T">>, <<"1"," ","c">>}

\* the sidebar with room_filter drawn from rooms: every pair of price bounds
\* with the selectbox and the text input at rest, and every selectbox value and
\* text input with the widest price bounds
WidgetsOver(rooms) ==
    [min_price : 0..MaxPrice, max_price : 0..MaxPrice, show_changed : BOOLEAN,
     room_filter : {All}, text_input : {<<>>}]
    \cup
    [min_price : {0}, max_price : {MaxPrice}, show_changed : BOOLEAN,
     room_filter : rooms, text_input : TextInputs]

-----------------------------------------------------------------------------
(* main() *)

InitOver(rooms) ==
    /\ file \in Files
    /\ widgets \in WidgetsOver(rooms)
    /\ data = <<>>
    /\ min_price = 0
    /\ max_price = 0
    /\ show_changed = FALSE
    /\ room_filter = <<>>
    /\ text_search = <<>>
    /\ filtered = <<>>
    /\ i = 1
    /\ markers = <<>>
    /\ shown = 0
    /\ j = 1
    /\ report = <<>>
    /\ pc = "start"

\* the process starts with the file on disk and the sidebar as the user left it
Init == InitOver(RoomOptions)

\* data = load_data(), the sidebar widgets are read, filtered = []
Setup ==
    /\ pc = "start"
    /\ data' = file
    /\ min_price' = widgets.min_price
    /\ max_price' = widgets.max_price
    /\ show_changed' = widgets.show_changed
    /\ room_filter' = widgets.room_filter
    /\ text_search' = Lower(Strip(widgets.text_input))
    /\ filtered' = <<>>
    /\ i' = 1
    /\ pc' = "filter"
    /\ UNCHANGED <<file, widgets, markers, shown, j, report>>

\* one iteration of "for l in data" over a JSON object
FilterStep ==
    /\ pc = "filter"
    /\ i <= Len(data)
    /\ IsDict(data[i])
    /\ filtered' =
          IF Keep(data[i], min_price, max_price, show_changed, room_filter, text_search)
          THEN ListAppend(filtered, data[i])
          ELSE filtered
    /\ i' = i + 1
    /\ UNCHANGED <<file, widgets, data, min_price, max_price, show_changed,
                   room_filter, text_search, markers, shown, j, report, pc>>

\* one iteration of "for l in data" over an element that has no get():
\* l.get raises AttributeError and main ends there
FilterRaise ==
    /\ pc = "filter"
    /\ i <= Len(data)
    /\ ~IsDict(data[i])
    /\ pc' = "error"
    /\ UNCHANGED <<file, widgets, data, min_price, max_price, show_changed,
                   room_filter, text_search, filtered, i, markers, shown, j, report>>

\* the filtering loop ends; the map and the cluster are made, shown = 0
MapSetup ==
    /\ pc = "filter"
    /\ i > Len(data)
    /\ markers' = <<>>
    /\ shown' = 0
    /\ j' = 1
    /\ pc' = "map"
    /\ UNCHANGED <<file, widgets, data, min_price, max_price, show_changed,
                   room_filter, text_search, filtered, i, report>>

\* one iteration of "for listing in filtered"
MarkerStep ==
    /\ pc = "map"
    /\ j <= Len(filtered)
    /\ LET listing == filtered[j]
           lat == Get(listing, "latitude")
           lon == Get(listing, "longitude")
       IN  IF HasCoords(lat, lon)
           THEN /\ shown' = shown + 1
                /\ markers' = ListAppend(markers, Marker(listing))
           ELSE UNCHANGED <<shown, markers>>
    /\ j' = j + 1
    /\ UNCHANGED <<file, widgets, data, min_price, max_price, show_changed,
                   room_filter, text_search, filtered, i, report, pc>>

\* st_folium(m, ...) and the st.markdown summary line
Display ==
    /\ pc = "map"
    /\ j > Len(filtered)
    /\ report' = Summary(shown, data)
    /\ pc' = "done"
    /\ UNCHANGED <<file, widgets, data, min_price, max_price, show_changed,
                   room_filter, text_search, filtered, i, markers, shown, j>>

Next ==
    \/ Setup
    \/ FilterStep
    \/ FilterRaise
    \/ MapSetup
    \/ MarkerStep
    \/ Display

Spec == Init /\ [][Next]_vars

\* the same program with room_filter set to a value outside the selectbox options
InitAnyRoom == InitOver(RoomOptions \cup RoomOthers)

SpecAnyRoom == InitAnyRoom /\ [][Next]_vars

-----------------------------------------------------------------------------
(* Vocabulary of the claims: the four clauses and the coordinate condition *)
(* as the specification words them, over the fields of a listing           *)

\* the elements of data the filtering loop has gone through
Processed == SubSeq(data, 1, i - 1)

\* the elements of filtered the marker loop has gone through
Mapped == SubSeq(filtered, 1, j - 1)

Occurs(x, seq) == \E k \in 1..Len(seq) : seq[k] = x

HasPrice(l) == "latest_price" \in DOMAIN l

\* clause 1: latest_price is present and within the bounds
PriceClause(l) ==
    HasPrice(l) /\ min_price <= l.latest_price /\ l.latest_price <= max_price

PriceChanged(l) == "price_changed" \in DOMAIN l /\ l.price_changed = TRUE

\* clause 2: only_changed is false or price_changed is true
ChangeClause(l) == ~show_changed \/ PriceChanged(l)

RoomToken(rf) ==
    IF rf = <<"1">> THEN <<"1">>
    ELSE IF rf = <<"2">> THEN <<"2">>
    ELSE <<"g","a","r","z">>

FieldText(l, key) == IF key \in DOMAIN l THEN l[key] ELSE <<>>

\* clause 3: room_filter is All or the lower-cased category contains the token
RoomClause(l) ==
    room_filter = All \/ In(RoomToken(room_filter), Lower(FieldText(l, "category")))

\* clause 4: text_query is empty or occurs in the lower-cased "{title} {category} {county}"
TextClause(l) ==
    \/ text_search = <<>>
    \/ In(text_search,
          Lower(FieldText(l, "title") \o <<" ">> \o FieldText(l, "category")
                    \o <<" ">> \o FieldText(l, "county")))

AllClauses(l) == PriceClause(l) /\ ChangeClause(l) /\ RoomClause(l) /\ TextClause(l)

\* both coordinates are present and non-zero
BothCoords(l) ==
    /\ "latitude" \in DOMAIN l /\ l.latitude # 0
    /\ "longitude" \in DOMAIN l /\ l.longitude # 0

\* what the loop keeps of l with the current sidebar and room_filter replaced by rf
KeepWithRoom(l, rf) == Keep(l, min_price, max_price, show_changed, rf, text_search)

KeepAsAll(l) == KeepWithRoom(l, All)

KeepWithSidebar(l) == KeepWithRoom(l, room_filter)

\* the keywords the loop looks for in room_filter
Keywords == {<<"1">>, <<"2">>, <<"g","a","r","z">>}

KeywordsOf(rf) ==
    {kw \in Keywords : IF kw = <<"g","a","r","z">> THEN In(kw, Lower(rf)) ELSE In(kw, rf)}

HasEveryKeyword(l) ==
    \A kw \in KeywordsOf(room_filter) : In(kw, Lower(FieldText(l, "category")))

KeepAsAllWithKeywords(l) == KeepAsAll(l) /\ HasEveryKeyword(l)

RECURSIVE IsSubseq(_, _)
\* s can be obtained from t by deleting elements
IsSubseq(s, t) ==
    IF s = <<>> THEN TRUE
    ELSE IF t = <<>> THEN FALSE
    ELSE IF Head(s) = Head(t) THEN IsSubseq(Tail(s), Tail(t))
    ELSE IsSubseq(s, Tail(t))

\* marker m is the marker of listing l: its position, its popup and its colour are l's
MarkerOf(m, l) ==
    /\ IsDict(l)
    /\ BothCoords(l)
    /\ m.location = <<<<l.latitude>>, <<l.longitude>>>>
    /\ m.popup.title = FieldText(l, "title")
    /\ m.popup.category = Get(l, "category")
    /\ m.popup.county = Get(l, "county")
    /\ m.popup.latest_price = Get(l, "latest_price")
    /\ (m.color = "red") <=> PriceChanged(l)

RECURSIVE MarkersFollow(_, _)
\* the markers ms are the markers of a subsequence of ls, in the order of ls
MarkersFollow(ms, ls) ==
    IF ms = <<>> THEN TRUE
    ELSE IF ls = <<>> THEN FALSE
    ELSE IF MarkerOf(Head(ms), Head(ls)) THEN MarkersFollow(Tail(ms), Tail(ls))
    ELSE MarkersFollow(ms, Tail(ls))

-----------------------------------------------------------------------------
(* The claims *)

\* C1: a listing that has no latest_price is never put in the matched set,
\* whatever the sidebar holds and whatever its other fields are.
C1_NoPriceNeverMatched ==
    \A k \in 1..Len(filtered) : HasPrice(filtered[k])

\* a run is over in which a listing without price passed every other filter
C1_Witness ==
    /\ pc = "done"
    /\ \E k \in 1..Len(data) :
          /\ ~HasPrice(data[k])
          /\ ChangeClause(data[k]) /\ RoomClause(data[k]) /\ TextClause(data[k])
          /\ ~Occurs(data[k], filtered)

\* C2 (as claimed): the matched set holds exactly the listings for which all four
\* clauses pass, clause 1 being "latest_price is present and within the bounds".
C2_MatchedIffAllClauses ==
    pc # "start" /\ room_filter \in RoomOptions
        => filtered = SelectSeq(Processed, AllClauses)

C6_EmptyWhenBoundsCross ==
    min_price > max_price => filtered = <<>> /\ markers = <<>>

\* a run is over with crossed bounds over a store that holds a priced listing
C6_Witness ==
    /\ pc = "done"
    /\ min_price > max_price
    /\ \E k \in 1..Len(data) : HasPrice(data[k]) /\ data[k].latest_price > 0

\* C7: the matched sequence and the marker sequence are subsequences of the store
\* in the order of the store; no listing occurs more often than in the store.
C7_OutputFollowsInput ==
    /\ IsSubseq(filtered, data)
    /\ MarkersFollow(markers, filtered)
    /\ MarkersFollow(markers, data)

\* a run is over in which two different listings were matched and got markers
C7_Witness ==
    /\ pc = "done"
    /\ Len(markers) >= 2
    /\ markers[1] # markers[2]
    /\ filtered[1] # filtered[2]

\* C8: a listing matched under the bounds of the sidebar is matched under every
\* wider pair of bounds, a listing matched under a narrower pair is matched under
\* those of the sidebar, and a listing that fails the change, room or text clause
\* is matched under no bounds at all.
C8_PriceRangeMonotone ==
    /\ \A mn \in 0..MaxPrice, mx \in 0..MaxPrice :
          mn <= min_price /\ max_price <= mx =>
              \A k \in 1..Len(filtered) :
                  Keep(filtered[k], mn, mx, show_changed, room_filter, text_search)
    /\ \A mn \in 0..MaxPrice, mx \in 0..MaxPrice :
          min_price <= mn /\ mx <= max_price =>
              \A k \in 1..Len(Processed) :
                  Keep(data[k], mn, mx, show_changed, room_filter, text_search)
                      => Occurs(data[k], filtered)
    /\ room_filter \in RoomOptions =>
          \A k \in 1..Len(Processed) :
              ~(ChangeClause(data[k]) /\ RoomClause(data[k]) /\ TextClause(data[k])) =>
                  /\ ~Occurs(data[k], filtered)
                  /\ \A mn \in 0..MaxPrice, mx \in 0..MaxPrice :
                        ~Keep(data[k], mn, mx, show_changed, room_filter, text_search)

\* a run is over under bounds narrower than the widest, with a listing matched
\* and a priced listing that failed the change clause
C8_Witness ==
    /\ pc = "done"
    /\ min_price = 1 /\ max_price = 1
    /\ Len(filtered) > 0
    /\ \E k \in 1..Len(data) : HasPrice(data[k]) /\ PriceClause(data[k]) /\ ~ChangeClause(data[k])

\* C9 (as claimed): an element of the array that is not an object is skipped: the
\* run does not end in an error and the listings are filtered as without it.
C9_MalformedRecordSkipped ==
    /\ pc # "error"
    /\ pc \in {"map", "done"} =>
          filtered = SelectSeq(SelectSeq(data, IsDict), KeepWithSidebar)

\* C10: a marker is made for a listing exactly when the listing is matched and
\* both latitude and longitude are present and non-zero; its position is
\* (latitude, longitude) and it is red exactly when price_changed is true.
C10_MarkerIffMatchedWithCoords ==
    LET expected == SelectSeq(Mapped, BothCoords)
    IN  /\ Len(markers) = Len(expected)
        /\ \A k \in 1..Len(markers) :
              /\ markers[k].location = <<<<expected[k].latitude>>, <<expected[k].longitude>>>>
              /\ markers[k].color \in {"red", "blue"}
              /\ (markers[k].color = "red") <=> PriceChanged(expected[k])
        /\ pc = "done" => Mapped = filtered

\* a run is over in which a matched listing with only one coordinate got no
\* marker and another matched listing got its marker at (1, 2)
C10_Witness ==
    /\ pc = "done"
    /\ \E k \in 1..Len(filtered) :
          ~BothCoords(filtered[k])
              /\ ("latitude" \in DOMAIN filtered[k] /\ filtered[k].latitude # 0)
    /\ \E k \in 1..Len(markers) : markers[k].location = <<<<1>>, <<2>>>>

====
